---- MODULE Spec2Model ----
(***************************************************************************)
(* Model of src/cadvisor_collector.py: the CAdvisorCollector pipeline.     *)
(*                                                                         *)
(* Three threads share one collector object:                               *)
(*   - the main thread (main(): start(), signal handlers calling stop(),   *)
(*     join()),                                                            *)
(*   - the worker thread running collect_loop() / collect_once(),          *)
(*   - the writer thread running container_queue_writer().                 *)
(* Each action below is one step of one thread between two points where    *)
(* another thread can observe or change shared state (stop_event,          *)
(* write_queue).  seen_samples and the snapshot are private to the worker, *)
(* the output file is private to the writer.                               *)
(***************************************************************************)
EXTENDS Integers, Sequences, FiniteSets, TLC

\* ------------------------------------------------------------------ bounds
MaxSamples == 2     \* stat samples in one decoded snapshot
MaxStops == 2       \* calls of stop() in one run (repeated signals)
MaxInterval == 2    \* largest configured interval_seconds

\* ------------------------------------------------------------ text helpers
\* Strings that the code takes apart are sequences of one-character strings.
HTTP == <<"h", "t", "t", "p", ":", "/", "/">>
HTTPS == <<"h", "t", "t", "p", "s", ":", "/", "/">>
DefaultPort == <<":", "8", "0", "8", "0">>

StartsWith(s, p) == Len(s) >= Len(p) /\ SubSeq(s, 1, Len(p)) = p

RECURSIVE LStrip(_, _)
LStrip(s, chars) ==
    IF s # <<>> /\ Head(s) \in chars THEN LStrip(Tail(s), chars) ELSE s

RECURSIVE RStrip(_, _)
RStrip(s, chars) ==
    IF s # <<>> /\ s[Len(s)] \in chars
    THEN RStrip(SubSeq(s, 1, Len(s) - 1), chars)
    ELSE s

\* str.strip(): whitespace removed at both ends
Strip(s) == RStrip(LStrip(s, {" "}), {" "})

\* s.split("//", 1)[-1]: what follows the first "//", or all of s
AfterFirstSlashes(s) ==
    LET hits == {i \in 1..(Len(s) - 1) : s[i] = "/" /\ s[i + 1] = "/"}
    IN  IF hits = {} THEN s
        ELSE LET i == CHOOSE j \in hits : \A k \in hits : j <= k
             IN  SubSeq(s, i + 2, Len(s))

HasColon(s) == \E i \in 1..Len(s) : s[i] = ":"

\* get_cadvisor_base_url: raised = the ValueError of an unconfigured address
get_cadvisor_base_url(address) ==
    IF address = <<>>
    THEN [raised |-> TRUE, url |-> <<>>]
    ELSE LET host_value == Strip(address)
             base0 == IF StartsWith(host_value, HTTP) \/ StartsWith(host_value, HTTPS)
                      THEN host_value
                      ELSE HTTP \o host_value
             base == IF ~HasColon(AfterFirstSlashes(base0))
                     THEN base0 \o DefaultPort
                     ELSE base0
         IN  [raised |-> FALSE, url |-> RStrip(base, {"/"})]

\* ------------------------------------------------------------------ inputs
Addresses == {<<>>, <<"h">>}
Intervals == {MaxInterval}
Containers == {"c1", "c2"}

\* The "timestamp" of a stat sample: absent (or empty), not ISO-8601, or an
\* instant given in tenths of a second since the epoch.
IsoTenths == {15}
Timestamps ==
    {[kind |-> "missing", tenths |-> 0], [kind |-> "junk", tenths |-> 0]}
        \cup {[kind |-> "iso", tenths |-> t] : t \in IsoTenths}

\* A stat sample: its timestamp, and whether its cpu/memory/network values
\* convert with float()/int() (metrics_ok) or one of them raises.
Samples ==
    {[ts |-> t, metrics_ok |-> TRUE] : t \in Timestamps}
        \cup {[ts |-> [kind |-> "iso", tenths |-> t], metrics_ok |-> FALSE] : t \in IsoTenths}

StatsLists(n) == UNION {[1..k -> Samples] : k \in 1..n}

\* The decoded response body: container entries in the order of the JSON
\* object (a dict: the container ids are distinct).  A container whose stats
\* list is empty iterates zero times and is left out.
DockerSnapshots ==
    {<<>>}
        \cup {<<[id |-> c, stats |-> st]>> : c \in Containers, st \in StatsLists(MaxSamples)}
        \cup {<<[id |-> c, stats |-> st], [id |-> d, stats |-> su]>> :
                 <<c, d, st, su>> \in
                     {q \in Containers \X Containers
                                \X StatsLists(MaxSamples - 1) \X StatsLists(MaxSamples - 1) :
                         q[1] # q[2] /\ Len(q[3]) + Len(q[4]) <= MaxSamples}}

\* ---------------------------------------------------------- queue and file
\* Items of write_queue and lines of the file share one record shape.
HeaderLine == [kind |-> "header", cid |-> "", ts |-> 0]
Sentinel == [kind |-> "empty", cid |-> "", ts |-> 0]       \* the "" of stop()
Row(cid, sample_ts) == [kind |-> "row", cid |-> cid, ts |-> sample_ts]

\* Variant: the writer writes whatever it dequeues.
FileWrite_SentinelLine(f, item) == Append(f, item)

\* f.write(item): a row is one line, the empty string adds nothing
FileWrite(f, item) == IF item = Sentinel THEN f ELSE Append(f, item)

\* round(): Python 3 rounds a tie to the even neighbour
RoundHalfEven(tenths) ==
    LET q == tenths \div 10
        r == tenths % 10
    IN  IF r < 5 THEN q
        ELSE IF r > 5 THEN q + 1
        ELSE IF q % 2 = 0 THEN q ELSE q + 1

\* `if not ts: continue`
TimestampPresent(s) == s.ts.kind # "missing"
\* dateutil.parser.isoparse(ts) returns (TRUE) or raises (FALSE)
TimestampParses(s) == s.ts.kind = "iso"
\* round(datetime.timestamp(isoparse(ts)))
SampleTs(s) == RoundHalfEven(s.ts.tenths)


\* ------------------------------------------------------------------- state
VARIABLES
    cadvisor_address,   \* self.cadvisor_address, as given to __init__
    interval_seconds,   \* self.interval_seconds
    stop_event,         \* self.stop_event
    write_queue,        \* self.write_queue, oldest item first
    seen_samples,       \* self.seen_samples
    file,               \* the lines of cadvisor_container.csv
    mpc,                \* main thread: where main() is
    cpc,                \* worker thread: where collect_loop()/collect_once() is
    wpc,                \* writer thread: where container_queue_writer() is
    spc,                \* where a running stop() is
    stops,              \* calls of stop() so far
    docker_data,        \* what is left to iterate of the decoded snapshot
    tick,               \* the index of the interruptible wait loop
    enqueued,           \* history: every row put on write_queue, in order
    at_stop,            \* history: Len(enqueued) when stop_event was first set, or -1
    written_at_stop,    \* history: the data rows in the file at that moment, or -1
    failed,             \* history: whether a fetch has failed
    it_snapshot,        \* history: the snapshot of the iteration in progress
    it_seen,            \* history: seen_samples when that snapshot arrived
    it_rows,            \* history: the rows this iteration has put on the queue
    truncated,          \* history: the lines the open(file_path, "w") just made
                        \* has discarded, until the writer's next step
    fpc,                \* where the call of a function taken alone is
    fn_in,              \* the argument of that call
    fn_out              \* what that call has returned

vars ==
    <<cadvisor_address, interval_seconds, stop_event, write_queue, seen_samples,
      file, mpc, cpc, wpc, spc, stops, docker_data, tick, enqueued,
      at_stop, written_at_stop, failed, it_snapshot, it_seen, it_rows,
      truncated, fpc, fn_in, fn_out>>

\* The call of one function taken alone; idle while the threads run.
alone == <<fpc, fn_in, fn_out>>
config == <<cadvisor_address, interval_seconds, alone>>
history == <<enqueued, at_stop, written_at_stop, failed, it_snapshot, it_seen, it_rows>>
iteration == <<it_snapshot, it_seen, it_rows>>

\* The data rows this run has written: the lines after the header, once the
\* writer has created the file.
FileRows == IF wpc \in {"idle", "open"} THEN <<>> ELSE Tail(file)

\* A file left at the output path by an earlier run, or none.
PriorFiles == {<<>>, <<HeaderLine, Row("c0", 0)>>}

Init ==
    /\ cadvisor_address \in Addresses
    /\ interval_seconds \in Intervals
    /\ stop_event = FALSE
    /\ write_queue = <<>>
    /\ seen_samples = {}
    /\ file \in PriorFiles
    /\ mpc = "start_writer"
    /\ cpc = "idle"
    /\ wpc = "idle"
    /\ spc = "idle"
    /\ stops = 0
    /\ docker_data = <<>>
    /\ tick = 0
    /\ enqueued = <<>>
    /\ at_stop = -1
    /\ written_at_stop = -1
    /\ failed = FALSE
    /\ it_snapshot = <<>>
    /\ it_seen = {}
    /\ it_rows = <<>>
    /\ truncated = <<>>
    /\ fpc = "idle"
    /\ fn_in = <<>>
    /\ fn_out = <<>>

\* ------------------------------------------------------------- main thread
\* start(): self.writer_thread.start()
StartWriter ==
    /\ mpc = "start_writer"
    /\ mpc' = "start_worker"
    /\ wpc' = "open"
    /\ UNCHANGED <<config, truncated, stop_event, write_queue, seen_samples, file, cpc, spc,
                   stops, docker_data, tick, history>>

\* start(): self.worker_thread.start()
StartWorker ==
    /\ mpc = "start_worker"
    /\ mpc' = "join_worker"
    /\ cpc' = "loop"
    /\ UNCHANGED <<config, truncated, stop_event, write_queue, seen_samples, file, wpc, spc,
                   stops, docker_data, tick, history>>

\* join(): self.worker_thread.join() returns.  A signal handler runs on the
\* main thread, so join() does not go on while a stop() is under way.
JoinWorker ==
    /\ mpc = "join_worker"
    /\ cpc = "done"
    /\ spc = "idle"
    /\ mpc' = "join_writer"
    /\ UNCHANGED <<config, truncated, stop_event, write_queue, seen_samples, file, cpc, wpc,
                   spc, stops, docker_data, tick, history>>

\* join(): self.writer_thread.join() returns, main() ends
JoinWriter ==
    /\ mpc = "join_writer"
    /\ wpc = "done"
    /\ spc = "idle"
    /\ mpc' = "exited"
    /\ UNCHANGED <<config, truncated, stop_event, write_queue, seen_samples, file, cpc, wpc,
                   spc, stops, docker_data, tick, history>>

\* stop(): self.stop_event.set().  handle_signal is installed after start().
StopSet ==
    /\ mpc \in {"join_worker", "join_writer"}
    /\ spc = "idle"
    /\ stops < MaxStops
    /\ stop_event' = TRUE
    /\ spc' = "put"
    /\ stops' = stops + 1
    /\ at_stop' = IF at_stop = -1 THEN Len(enqueued) ELSE at_stop
    /\ written_at_stop' = IF at_stop = -1 THEN Len(FileRows) ELSE written_at_stop
    /\ UNCHANGED <<config, truncated, write_queue, seen_samples, file, mpc, cpc, wpc,
                   docker_data, tick, enqueued, failed, iteration>>

\* stop(): self.write_queue.put("")
StopPut ==
    /\ spc = "put"
    /\ write_queue' = Append(write_queue, Sentinel)
    /\ spc' = "idle"
    /\ UNCHANGED <<config, truncated, stop_event, seen_samples, file, mpc, cpc, wpc, stops,
                   docker_data, tick, history>>

Main == StartWriter \/ StartWorker \/ JoinWorker \/ JoinWriter
Stop == StopSet \/ StopPut


\* ----------------------------------------------------------- worker thread
\* Variant: `while True:`, the loop never looks at the stop flag.
CollectLoopCheck_Forever ==
    /\ cpc = "loop"
    /\ cpc' = "once_check"
    /\ UNCHANGED <<config, truncated, stop_event, write_queue, seen_samples, file, mpc, wpc,
                   spc, stops, docker_data, tick, history>>

\* collect_loop: `while not self.stop_event.is_set():`
CollectLoopCheck ==
    /\ cpc = "loop"
    /\ cpc' = IF stop_event THEN "done" ELSE "once_check"
    /\ UNCHANGED <<config, truncated, stop_event, write_queue, seen_samples, file, mpc, wpc,
                   spc, stops, docker_data, tick, history>>

\* Variant: collect_once without its stop check.
CollectOnceCheck_NoCheck ==
    /\ cpc = "once_check"
    /\ cpc' = "resolve"
    /\ UNCHANGED <<config, truncated, stop_event, write_queue, seen_samples, file, mpc, wpc,
                   spc, stops, docker_data, tick, history>>

\* collect_once: `if self.stop_event.is_set(): return` ("skip": the
\* iteration returns at once), else on to the fetch
CollectOnceCheck ==
    /\ cpc = "once_check"
    /\ cpc' = IF stop_event THEN "skip" ELSE "resolve"
    /\ UNCHANGED <<config, truncated, stop_event, write_queue, seen_samples, file, mpc, wpc,
                   spc, stops, docker_data, tick, history>>

\* collect_once: the collection timestamp, get_cadvisor_base_url() and the
\* start of requests.get(url, timeout=10); the ValueError of an unconfigured
\* address goes to the except clause of collect_loop
ResolveAndRequest ==
    /\ cpc = "resolve"
    /\ cpc' = IF get_cadvisor_base_url(cadvisor_address).raised THEN "except" ELSE "fetch"
    /\ UNCHANGED <<config, truncated, stop_event, write_queue, seen_samples, file, mpc, wpc,
                   spc, stops, docker_data, tick, history>>

\* Variant: a failed fetch forgets the seen set.
FetchFail_ForgetsSeen ==
    /\ cpc = "fetch"
    /\ cpc' = "except"
    /\ failed' = TRUE
    /\ seen_samples' = {}
    /\ UNCHANGED <<config, truncated, stop_event, write_queue, file, mpc, wpc,
                   spc, stops, docker_data, tick, enqueued, at_stop,
                   written_at_stop, iteration>>

\* requests.get / raise_for_status / response.json() raises: a transport
\* error, a timeout, a non-2xx status or a body that is not JSON
FetchFail ==
    /\ cpc = "fetch"
    /\ cpc' = "except"
    /\ failed' = TRUE
    /\ UNCHANGED <<config, truncated, stop_event, write_queue, seen_samples, file, mpc, wpc,
                   spc, stops, docker_data, tick, enqueued, at_stop,
                   written_at_stop, iteration>>

\* response.json() returns the snapshot
FetchSuccess ==
    /\ cpc = "fetch"
    /\ \E d \in DockerSnapshots :
        /\ docker_data' = d
        /\ it_snapshot' = d
        /\ cpc' = IF d = <<>> THEN "return" ELSE "process"
    /\ it_seen' = seen_samples
    /\ it_rows' = <<>>
    /\ UNCHANGED <<config, truncated, stop_event, write_queue, seen_samples, file, mpc, wpc,
                   spc, stops, tick, enqueued, at_stop,
                   written_at_stop, failed>>

\* What the two for loops have left after the sample at hand.
RestOf(data) ==
    IF Len(data[1].stats) > 1
    THEN <<[data[1] EXCEPT !.stats = Tail(@)]>> \o Tail(data)
    ELSE Tail(data)

\* `unique_key = (container_id, sample_ts)`
UniqueKey(container_id, s) == <<container_id, SampleTs(s)>>

\* Variant: the seen set is never consulted.
AlreadySeen_Never(unique_key) == FALSE

\* `if unique_key in self.seen_samples: continue`
AlreadySeen(unique_key) == unique_key \in seen_samples

\* Variant: no try/except around isoparse, a timestamp that does not parse
\* is taken as the epoch.
SkipsTimestamp_OnlyMissing(s) == ~TimestampPresent(s)

\* `if not ts: continue` and the except clause around isoparse
SkipsTimestamp(s) == ~TimestampPresent(s) \/ ~TimestampParses(s)

\* One pass of the body of `for s in stats_list:` for the sample at hand:
\* skipped (timestamp, or seen), or marked seen and then either put on the
\* queue or, when a float()/int() of a metric raises, left by the exception,
\* which ends collect_once.
ProcessSample ==
    /\ cpc = "process"
    /\ LET container_id == docker_data[1].id
           s == docker_data[1].stats[1]
           unique_key == UniqueKey(container_id, s)
           rest == RestOf(docker_data)
           line == Row(container_id, SampleTs(s))
       IN  IF SkipsTimestamp(s) \/ AlreadySeen(unique_key)
           THEN /\ docker_data' = rest
                /\ cpc' = IF rest = <<>> THEN "return" ELSE "process"
                /\ UNCHANGED <<seen_samples, write_queue, enqueued, it_rows>>
           ELSE /\ seen_samples' = seen_samples \cup {unique_key}
                /\ IF s.metrics_ok
                   THEN /\ write_queue' = Append(write_queue, line)
                        /\ enqueued' = Append(enqueued, line)
                        /\ it_rows' = Append(it_rows, line)
                        /\ docker_data' = rest
                        /\ cpc' = IF rest = <<>> THEN "return" ELSE "process"
                   ELSE /\ cpc' = "except"
                        /\ UNCHANGED <<docker_data, write_queue, enqueued, it_rows>>
    /\ UNCHANGED <<config, truncated, stop_event, file, mpc, wpc, spc, stops, tick,
                   at_stop, written_at_stop, failed, it_snapshot, it_seen>>

\* collect_once returns to collect_loop (the end of the loops, or the
\* `return` of a skipped iteration)
CollectReturn ==
    /\ cpc \in {"return", "skip"}
    /\ cpc' = "wait_check"
    /\ tick' = 0
    /\ docker_data' = <<>>
    /\ it_snapshot' = <<>>
    /\ it_seen' = {}
    /\ it_rows' = <<>>
    /\ UNCHANGED <<config, truncated, stop_event, write_queue, seen_samples, file, mpc, wpc,
                   spc, stops, enqueued, at_stop, written_at_stop, failed>>

\* Variant: no try/except in collect_loop, the exception ends the thread.
CollectExcept_Dies ==
    /\ cpc = "except"
    /\ cpc' = "done"
    /\ tick' = 0
    /\ docker_data' = <<>>
    /\ it_snapshot' = <<>>
    /\ it_seen' = {}
    /\ it_rows' = <<>>
    /\ UNCHANGED <<config, truncated, stop_event, write_queue, seen_samples, file, mpc, wpc,
                   spc, stops, enqueued, at_stop, written_at_stop, failed>>

\* collect_loop: `except Exception: logging.exception(...)`
CollectExcept ==
    /\ cpc = "except"
    /\ cpc' = "wait_check"
    /\ tick' = 0
    /\ docker_data' = <<>>
    /\ it_snapshot' = <<>>
    /\ it_seen' = {}
    /\ it_rows' = <<>>
    /\ UNCHANGED <<config, truncated, stop_event, write_queue, seen_samples, file, mpc, wpc,
                   spc, stops, enqueued, at_stop, written_at_stop, failed>>

\* Variant: the wait sleeps the whole interval without looking at stop.
WaitCheck_Uninterruptible ==
    /\ cpc = "wait_check"
    /\ IF tick >= interval_seconds
       THEN cpc' = "loop"
       ELSE cpc' = "sleeping"
    /\ tick' = tick
    /\ UNCHANGED <<config, truncated, stop_event, write_queue, seen_samples, file, mpc, wpc,
                   spc, stops, docker_data, history>>

\* `for _ in range(self.interval_seconds): if self.stop_event.is_set(): break`
WaitCheck ==
    /\ cpc = "wait_check"
    /\ IF tick >= interval_seconds \/ stop_event
       THEN cpc' = "loop"
       ELSE cpc' = "sleeping"
    /\ tick' = tick
    /\ UNCHANGED <<config, truncated, stop_event, write_queue, seen_samples, file, mpc, wpc,
                   spc, stops, docker_data, history>>

\* `time.sleep(1)` returns
Sleep ==
    /\ cpc = "sleeping"
    /\ cpc' = "wait_check"
    /\ tick' = tick + 1
    /\ UNCHANGED <<config, truncated, stop_event, write_queue, seen_samples, file, mpc, wpc,
                   spc, stops, docker_data, history>>

Collector ==
    \/ CollectLoopCheck
    \/ CollectOnceCheck
    \/ ResolveAndRequest
    \/ FetchFail
    \/ FetchSuccess
    \/ ProcessSample
    \/ CollectReturn
    \/ CollectExcept
    \/ WaitCheck
    \/ Sleep

\* ----------------------------------------------------------- writer thread
\* Variant: the file is opened with "a", the header goes after what is there.
WriterOpen_Append ==
    /\ wpc = "open"
    /\ file' = Append(file, HeaderLine)
    /\ truncated' = <<>>
    /\ wpc' = "loop"
    /\ UNCHANGED <<config, stop_event, write_queue, seen_samples, mpc, cpc, spc,
                   stops, docker_data, tick, history>>

\* os.makedirs, then `with open(file_path, "w")`: the header alone
WriterOpen ==
    /\ wpc = "open"
    /\ file' = <<HeaderLine>>
    /\ truncated' = file
    /\ wpc' = "loop"
    /\ UNCHANGED <<config, stop_event, write_queue, seen_samples, mpc, cpc, spc,
                   stops, docker_data, tick, history>>

\* Variant: the writer closes the file as soon as it sees the stop flag.
WriterLoopCheck_NoDrain ==
    /\ wpc = "loop"
    /\ wpc' = IF stop_event THEN "done" ELSE "get"
    /\ truncated' = <<>>
    /\ UNCHANGED <<config, stop_event, write_queue, seen_samples, file, mpc, cpc,
                   spc, stops, docker_data, tick, history>>

\* `while not self.stop_event.is_set():`
WriterLoopCheck ==
    /\ wpc = "loop"
    /\ wpc' = IF stop_event THEN "drain" ELSE "get"
    /\ truncated' = <<>>
    /\ UNCHANGED <<config, stop_event, write_queue, seen_samples, file, mpc, cpc,
                   spc, stops, docker_data, tick, history>>

\* Variant: a LIFO queue, get() hands out the newest item.
WriterGet_Lifo ==
    /\ wpc = "get"
    /\ IF write_queue = <<>>
       THEN UNCHANGED <<write_queue, file>>
       ELSE /\ file' = FileWrite(file, write_queue[Len(write_queue)])
            /\ write_queue' = SubSeq(write_queue, 1, Len(write_queue) - 1)
    /\ wpc' = "loop"
    /\ UNCHANGED <<config, truncated, stop_event, seen_samples, mpc, cpc, spc, stops,
                   docker_data, tick, history>>

\* `item = self.write_queue.get(timeout=1.0); f.write(item); f.flush()`, or
\* Empty after the timeout
WriterGet ==
    /\ wpc = "get"
    /\ IF write_queue = <<>>
       THEN UNCHANGED <<write_queue, file>>
       ELSE /\ file' = FileWrite(file, Head(write_queue))
            /\ write_queue' = Tail(write_queue)
    /\ wpc' = "loop"
    /\ UNCHANGED <<config, truncated, stop_event, seen_samples, mpc, cpc, spc, stops,
                   docker_data, tick, history>>

\* `while True: item = self.write_queue.get_nowait()`: Empty breaks and the
\* file is closed, an item is written and flushed
WriterDrain ==
    /\ wpc = "drain"
    /\ IF write_queue = <<>>
       THEN wpc' = "done" /\ UNCHANGED <<write_queue, file>>
       ELSE /\ file' = FileWrite(file, Head(write_queue))
            /\ write_queue' = Tail(write_queue)
            /\ wpc' = "drain"
    /\ UNCHANGED <<config, truncated, stop_event, seen_samples, mpc, cpc, spc, stops,
                   docker_data, tick, history>>

Writer == WriterOpen \/ WriterLoopCheck \/ WriterGet \/ WriterDrain

\* ---------------------------------------------------------- specifications
Next == Main \/ Stop \/ Collector \/ Writer

Spec == Init /\ [][Next]_vars

\* Every thread that can take a step eventually takes one; the HTTP call
\* returns or fails within its timeout (FetchFail is always possible).
FairSpec ==
    Spec /\ WF_vars(Main) /\ WF_vars(Collector) /\ WF_vars(Writer) /\ WF_vars(StopPut)


\* ----------------------------------------------------- notions of the claims
IsPrefix(a, b) == Len(a) <= Len(b) /\ SubSeq(b, 1, Len(a)) = a
IsRow(item) == item.kind = "row"
QueueRows == SelectSeq(write_queue, IsRow)
InQueue(r) == \E i \in 1..Len(write_queue) : write_queue[i] = r
InFile(r) == \E i \in 1..Len(FileRows) : FileRows[i] = r
KeyOf(r) == <<r.cid, r.ts>>
Rows == {Row(c, RoundHalfEven(t)) : c \in Containers, t \in IsoTenths}

\* The samples of a snapshot in container-then-sample order, each with its
\* container id.
RECURSIVE Flat(_)
Flat(data) ==
    IF data = <<>> THEN <<>>
    ELSE [i \in 1..Len(data[1].stats) |-> [cid |-> data[1].id, s |-> data[1].stats[i]]]
             \o Flat(Tail(data))

HasIsoTimestamp(s) == s.ts.kind = "iso"
KeyOfSample(e) == <<e.cid, RoundHalfEven(e.s.ts.tenths)>>

\* The rows a batch owes: one per sample with an ISO timestamp whose key was
\* not seen before the batch nor earlier in it, in arrival order.
RECURSIVE OwedRows(_, _)
OwedRows(flat, seen) ==
    IF flat = <<>> THEN <<>>
    ELSE LET e == Head(flat)
         IN  IF HasIsoTimestamp(e.s) /\ KeyOfSample(e) \notin seen
             THEN <<Row(e.cid, KeyOfSample(e)[2])>>
                      \o OwedRows(Tail(flat), seen \cup {KeyOfSample(e)})
             ELSE OwedRows(Tail(flat), seen)

AllMetricsOk(flat) == \A i \in 1..Len(flat) : flat[i].s.metrics_ok
SomeBadTimestamp(flat) == \E i \in 1..Len(flat) : ~HasIsoTimestamp(flat[i].s)

\* ---------------------------------------------------------------------- C1
\* C1: drain on shutdown.  When the writer has terminated, every row enqueued
\* before stop() was requested (so every row then in the queue) is in the
\* file, in order; and if no row was enqueued after the request and the
\* worker has terminated too, the file is the header followed by exactly the
\* N rows enqueued.
C1_DrainOnShutdown ==
    wpc = "done" =>
        /\ at_stop >= 0
        /\ IsPrefix(SubSeq(enqueued, 1, at_stop), FileRows)
        /\ (cpc = "done" /\ Len(enqueued) = at_stop) => file = <<HeaderLine>> \o enqueued

\* Two rows were enqueued and still unwritten when stop() was requested, none
\* came later, and both threads have terminated.
C1_Witness ==
    /\ wpc = "done"
    /\ cpc = "done"
    /\ at_stop = 2
    /\ written_at_stop = 0
    /\ Len(enqueued) = 2
    /\ Len(file) = 3

\* ---------------------------------------------------------------------- C2
\* C2: no buffered sample is lost at exit.  Once join() has returned, every
\* row the worker ever enqueued is in the file and no row is left in the
\* queue.
C2_NothingLostAtExit ==
    mpc = "exited" => (FileRows = enqueued /\ QueueRows = <<>>)

\* ---------------------------------------------------------------------- C3
\* C3: deduplication.  In every step the seen set only grows, no row is
\* enqueued for a key that is already in the seen set, and no key ever has
\* more than one enqueued row.
RowsOfKey(k, rows) == {i \in 1..Len(rows) : KeyOf(rows[i]) = k}

C3_Deduplication ==
    [][/\ seen_samples \subseteq seen_samples'
       /\ \A k \in seen_samples : RowsOfKey(k, enqueued') = RowsOfKey(k, enqueued)
       /\ \A k \in seen_samples' : Cardinality(RowsOfKey(k, enqueued')) <= 1]_vars

\* A later poll iteration has run to its end over a snapshot holding a well
\* formed sample whose key an earlier iteration had enqueued.
C3_Witness ==
    /\ cpc = "return"
    /\ \E i \in 1..Len(Flat(it_snapshot)) :
           LET e == Flat(it_snapshot)[i]
           IN  /\ HasIsoTimestamp(e.s)
               /\ e.s.metrics_ok
               /\ KeyOfSample(e) \in it_seen
               /\ \E j \in 1..Len(enqueued) : KeyOf(enqueued[j]) = KeyOfSample(e)
               /\ \A j \in 1..Len(it_rows) : KeyOf(it_rows[j]) # KeyOfSample(e)

\* ---------------------------------------------------------------------- C4
\* C4: FIFO delivery.  Once the writer has created the file, its first line
\* is the header and the lines after it are a prefix of the rows in the order
\* the worker enqueued them (nothing reordered, repeated or invented).
C4_FifoDelivery ==
    wpc \notin {"idle", "open"} =>
        /\ file # <<>>
        /\ file[1] = HeaderLine
        /\ IsPrefix(Tail(file), enqueued)

\* Two rows are in the file, and the writer has also taken a "" of stop().
C4_Witness ==
    /\ Len(FileRows) = 2
    /\ stops >= 1
    /\ spc = "idle"
    /\ write_queue = <<>>

\* ---------------------------------------------------------------------- C5
\* C5: termination after stop.  Under fair scheduling, once stop() has set
\* the flag, both threads terminate and join() returns.
C5_TerminatesAfterStop == stop_event ~> (mpc = "exited")

\* join() has returned after a stop() that found the worker with a fetch in
\* flight: rows enqueued after the request show it.
C5_Witness ==
    /\ mpc = "exited"
    /\ stop_event
    /\ Len(enqueued) > at_stop

\* ---------------------------------------------------------------------- C6
\* C6: fetch failures are recoverable.  The worker terminates only when stop
\* is requested; after a failed iteration it begins another one unless stop
\* is requested; and a row enqueued while stop is not requested is
\* eventually written, failures before it or not.
C6_FetchFailureRecoverable ==
    /\ [](cpc = "done" => stop_event)
    /\ (cpc = "except") ~> (cpc = "resolve" \/ stop_event)
    /\ \A r \in Rows : (InQueue(r) /\ ~stop_event) ~> InFile(r)

\* A fetch has failed, and a row of the iteration now in progress (a later,
\* successful fetch) is already in the file.
C6_Witness ==
    /\ failed
    /\ ~stop_event
    /\ cpc \in {"process", "return"}
    /\ \E i \in 1..Len(it_rows) : InFile(it_rows[i])

\* ---------------------------------------------------------------------- C7
\* C7: skip-malformed-sample (timestamp).  When a poll iteration over a
\* snapshot whose samples all have well formed metrics reaches its end, the
\* rows it enqueued are exactly those of the samples with a parseable
\* timestamp and an unseen key, in arrival order; the seen set has grown by
\* exactly their keys; and each of them is in the queue or in the file.
C7_SkipMalformedTimestamp ==
    (cpc = "return" /\ AllMetricsOk(Flat(it_snapshot))) =>
        /\ it_rows = OwedRows(Flat(it_snapshot), it_seen)
        /\ seen_samples = it_seen \cup {KeyOf(it_rows[i]) : i \in 1..Len(it_rows)}
        /\ \A i \in 1..Len(it_rows) : InQueue(it_rows[i]) \/ InFile(it_rows[i])

\* The snapshot began with a sample whose timestamp is missing or does not
\* parse, and the valid sample after it was enqueued and written.
C7_Witness ==
    /\ cpc = "return"
    /\ AllMetricsOk(Flat(it_snapshot))
    /\ Len(Flat(it_snapshot)) = 2
    /\ ~HasIsoTimestamp(Flat(it_snapshot)[1].s)
    /\ Len(it_rows) = 1
    /\ InFile(it_rows[1])

\* ---------------------------------------------------------------------- C8
\* C8: sample-granularity recovery (field).  At the end of a poll iteration,
\* however it ends, a row has been enqueued for every sample of the snapshot
\* that is well formed, was unseen, and does not share its key with a sample
\* whose metric field is malformed.
C8_FieldErrorSkipsOneSample ==
    cpc \in {"return", "except"} =>
        LET flat == Flat(it_snapshot)
            badkeys == {KeyOfSample(flat[i]) :
                            i \in {j \in 1..Len(flat) :
                                       HasIsoTimestamp(flat[j].s) /\ ~flat[j].s.metrics_ok}}
        IN  \A i \in 1..Len(flat) :
                (/\ HasIsoTimestamp(flat[i].s)
                 /\ flat[i].s.metrics_ok
                 /\ KeyOfSample(flat[i]) \notin it_seen
                 /\ KeyOfSample(flat[i]) \notin badkeys)
                    => \E j \in 1..Len(it_rows) : KeyOf(it_rows[j]) = KeyOfSample(flat[i])

\* ---------------------------------------------------------------------- C9
\* C9 as stated: no HTTP fetch is started in a state where the stop flag is
\* set.
C9_NoFetchStartedAfterStop ==
    [][(cpc = "resolve" /\ cpc' = "fetch") => ~stop_event]_vars

\* C9 as amended: an iteration goes past the stop check of collect_once only
\* when that check finds the flag clear (with the flag set it returns at
\* once), and a fetch is started only by an iteration that went past it.
C9_FetchOnlyPastClearCheck ==
    [][/\ (cpc = "once_check" /\ stop_event) => cpc' \in {"once_check", "skip"}
       /\ (cpc # "resolve" /\ cpc' = "resolve") => (cpc = "once_check" /\ ~stop_event)
       /\ (cpc # "fetch" /\ cpc' = "fetch") => cpc = "resolve"]_vars

\* An iteration was skipped at the stop check: stop() came between the test
\* of collect_loop and the check of collect_once.
C9_Witness == cpc = "skip" /\ stop_event

\* --------------------------------------------------------------------- C10
\* C10: ConfigError is fatal at startup.  With an address for which
\* get_cadvisor_base_url raises, the worker never gets to treat the error as
\* a failed iteration (the except clause, then the wait for the next tick).
C10_ConfigErrorFatal ==
    get_cadvisor_base_url(cadvisor_address).raised
        => cpc \notin {"except", "wait_check", "sleeping"}


\* --------------------------------------------------------------------- C11
\* C11: fresh file per run.  In every state after the writer's startup the
\* first line of the file is the header, the header occurs exactly once, and
\* no line of a file left by an earlier run is in it.
LinesOfEarlierRuns ==
    {f[i] : <<f, i>> \in {q \in PriorFiles \X (1..2) : q[2] <= Len(q[1])}} \ {HeaderLine}

C11_FreshFilePerRun ==
    wpc \notin {"idle", "open"} =>
        /\ file # <<>>
        /\ file[1] = HeaderLine
        /\ Cardinality({i \in 1..Len(file) : file[i] = HeaderLine}) = 1
        /\ \A i \in 1..Len(file) : file[i] \notin LinesOfEarlierRuns

\* The writer has just started over a file that held a header and a row of
\* an earlier run: the file is the header alone.
C11_Witness ==
    /\ wpc = "loop"
    /\ Len(truncated) = 2
    /\ file = <<HeaderLine>>


\* ------------------------------------------- get_cadvisor_base_url alone
MaxAddrLen == 3     \* characters of an address after its scheme, if any

UrlChars == {"h", "8", ":", "/", " "}
UrlBodies == UNION {[1..k -> UrlChars] : k \in 0..MaxAddrLen}
UrlAddresses == {p \o b : p \in {<<>>, HTTP, HTTPS}, b \in UrlBodies}

\* The threads are not started.
ThreadsIdle ==
    /\ interval_seconds = MaxInterval
    /\ stop_event = FALSE
    /\ write_queue = <<>>
    /\ seen_samples = {}
    /\ file = <<>>
    /\ mpc = "start_writer"
    /\ cpc = "idle"
    /\ wpc = "idle"
    /\ spc = "idle"
    /\ stops = 0
    /\ docker_data = <<>>
    /\ tick = 0
    /\ enqueued = <<>>
    /\ at_stop = -1
    /\ written_at_stop = -1
    /\ failed = FALSE
    /\ it_snapshot = <<>>
    /\ it_seen = {}
    /\ it_rows = <<>>
    /\ truncated = <<>>

threads ==
    <<interval_seconds, stop_event, write_queue, seen_samples, file, mpc, cpc, wpc,
      spc, stops, docker_data, tick, history, truncated>>

UrlInit ==
    /\ ThreadsIdle
    /\ cadvisor_address \in UrlAddresses
    /\ fpc = "url"
    /\ fn_in = <<>>
    /\ fn_out = <<>>

\* base = self.get_cadvisor_base_url()
ResolveOnce ==
    /\ fpc = "url"
    /\ fn_in' = cadvisor_address
    /\ fn_out' = <<get_cadvisor_base_url(cadvisor_address)>>
    /\ fpc' = "url_once"
    /\ UNCHANGED <<cadvisor_address, threads>>

\* get_cadvisor_base_url() of a collector configured with that base
ResolveAgain ==
    /\ fpc = "url_once"
    /\ ~fn_out[1].raised
    /\ fn_out' = Append(fn_out, get_cadvisor_base_url(fn_out[1].url))
    /\ fpc' = "url_twice"
    /\ UNCHANGED <<cadvisor_address, fn_in, threads>>

UrlNext == ResolveOnce \/ ResolveAgain

UrlSpec == UrlInit /\ [][UrlNext]_vars

\* --------------------------------------------------------------------- C12
HasScheme(a) == StartsWith(a, HTTP) \/ StartsWith(a, HTTPS)
SchemeOf(a) == IF StartsWith(a, HTTP) THEN HTTP ELSE IF StartsWith(a, HTTPS) THEN HTTPS ELSE <<>>
AfterScheme(a) == SubSeq(a, Len(SchemeOf(a)) + 1, Len(a))
\* the host portion: what follows the scheme, up to the first "/"
HostPortion(a) ==
    LET rest == AfterScheme(a)
        cut == {i \in 1..Len(rest) : rest[i] = "/"}
    IN  IF cut = {} THEN rest
        ELSE SubSeq(rest, 1, (CHOOSE i \in cut : \A j \in cut : i <= j) - 1)
PathPortion(a) ==
    SubSeq(AfterScheme(a), Len(HostPortion(a)) + 1, Len(AfterScheme(a)))
HasWhitespace(a) == \E i \in 1..Len(a) : a[i] = " "
FullySpecified(a) ==
    /\ HasScheme(a)
    /\ ~HasWhitespace(a)
    /\ HostPortion(a) # <<>>
    /\ HasColon(HostPortion(a))

\* C12: idempotent URL normalization.  Normalizing the result of a
\* normalization gives that result again, and an address that already has
\* scheme and port comes back unchanged but for its trailing slashes.
C12_IdempotentNormalization ==
    /\ fpc = "url_twice" => fn_out[2] = fn_out[1]
    /\ (fpc \in {"url_once", "url_twice"} /\ FullySpecified(fn_in))
           => fn_out[1] = [raised |-> FALSE, url |-> RStrip(fn_in, {"/"})]

\* --------------------------------------------------------------------- C13
\* The base URL as C13 describes it: "http://" in front exactly when there is
\* no scheme, ":8080" after the host exactly when the host portion has no
\* port, trailing slashes trimmed.
DescribedBaseUrl(address) ==
    LET host_value == Strip(address)
        with_scheme == IF HasScheme(host_value) THEN host_value ELSE HTTP \o host_value
        with_port ==
            IF HasColon(HostPortion(with_scheme))
            THEN with_scheme
            ELSE SchemeOf(with_scheme) \o HostPortion(with_scheme) \o DefaultPort
                     \o PathPortion(with_scheme)
    IN  RStrip(with_port, {"/"})

\* C13: default port injection.  For every configured address the base URL
\* is the described one.
C13_DefaultPortInjection ==
    (fpc \in {"url_once", "url_twice"} /\ ~fn_out[1].raised)
        => fn_out[1].url = DescribedBaseUrl(fn_in)


\* ------------------------------------- extract_filesystem_counters alone
MaxDevices == 2     \* entries of a sample's filesystem list
MaxPresent == 2     \* keys present in one filesystem entry

\* JSON values of a filesystem entry: key absent, a number, a string that is
\* not a number.
Absent == [t |-> "absent", n |-> 0]
Num(k) == [t |-> "num", n |-> k]
NotANumber == [t |-> "str", n |-> 0]
FsValues == {Num(0), Num(1), NotANumber}

ReadsAliases == <<"reads", "readsCompleted">>
WritesAliases == <<"writes", "writesCompleted">>
ReadBytesAliases == <<"readBytes", "readbytes", "read_bytes">>
WriteBytesAliases == <<"writeBytes", "writebytes", "write_bytes">>
FieldAliases == <<ReadsAliases, WritesAliases, ReadBytesAliases, WriteBytesAliases>>
FsKeys == UNION {{FieldAliases[f][i] : i \in 1..Len(FieldAliases[f])} : f \in 1..4}

FsEntries ==
    UNION {{[k \in FsKeys |-> IF k \in K THEN g[k] ELSE Absent] : g \in [K -> FsValues]}
               : K \in {K \in SUBSET FsKeys : Cardinality(K) <= MaxPresent}}
FsLists(n) == UNION {[1..k -> FsEntries] : k \in 0..n}
NoList == [has |-> FALSE, list |-> <<>>]
List(l) == [has |-> TRUE, list |-> l]
FsSamples ==
    {[filesystem |-> List(l), fs |-> NoList] : l \in FsLists(MaxDevices)}
        \cup {[filesystem |-> f, fs |-> List(l)] : f \in {NoList, List(<<>>)}, l \in FsLists(1)}

\* Python truth value of a JSON value; d.get(k) of an absent key is None.
Truthy(v) == v.t = "str" \/ (v.t = "num" /\ v.n # 0)
\* a or b or ... over the aliases of one field, in order
RECURSIVE OrOverAliases(_, _)
OrOverAliases(fs_entry, aliases) ==
    IF Len(aliases) = 1 \/ Truthy(fs_entry[Head(aliases)])
    THEN fs_entry[Head(aliases)]
    ELSE OrOverAliases(fs_entry, Tail(aliases))
\* v or 0
OrZero(v) == IF Truthy(v) THEN v ELSE Num(0)
\* int(v), float(v): None and a string that is not a number raise
IntRaises(v) == v.t # "num"
IntOrZero(v) == OrZero(v).n

\* One pass of the loop body: the four += in order, left at the first int()
\* that raises.
AddEntry(totals, fs_entry) ==
    LET value == [f \in 1..4 |-> OrOverAliases(fs_entry, FieldAliases[f])]
        bad == {f \in 1..4 : IntRaises(OrZero(value[f]))}
    IN  [f \in 1..4 |->
            IF \A b \in bad : f < b THEN totals[f] + IntOrZero(value[f]) ELSE totals[f]]

RECURSIVE AddEntries(_, _)
AddEntries(totals, filesystem_list) ==
    IF filesystem_list = <<>> THEN totals
    ELSE AddEntries(AddEntry(totals, Head(filesystem_list)), Tail(filesystem_list))

\* sample.get("filesystem") or sample.get("fs") or []
FilesystemList(sample) ==
    IF sample.filesystem.has /\ sample.filesystem.list # <<>> THEN sample.filesystem.list
    ELSE IF sample.fs.has /\ sample.fs.list # <<>> THEN sample.fs.list
    ELSE <<>>

extract_filesystem_counters(sample) ==
    AddEntries(<<0, 0, 0, 0>>, FilesystemList(sample))

ExtractInit ==
    /\ ThreadsIdle
    /\ cadvisor_address = <<"h">>
    /\ fpc = "extract"
    /\ fn_in \in FsSamples
    /\ fn_out = <<>>

ExtractCounters ==
    /\ fpc = "extract"
    /\ fn_out' = extract_filesystem_counters(fn_in)
    /\ fpc' = "extracted"
    /\ UNCHANGED <<cadvisor_address, fn_in, threads>>

ExtractNext == ExtractCounters

ExtractSpec == ExtractInit /\ [][ExtractNext]_vars

\* --------------------------------------------------------------------- C14
RECURSIVE FirstPresent(_, _)
\* the value under the first alias the entry has, zero when it has none
FirstPresent(fs_entry, aliases) ==
    IF aliases = <<>> THEN 0
    ELSE IF fs_entry[Head(aliases)] # Absent THEN fs_entry[Head(aliases)].n
    ELSE FirstPresent(fs_entry, Tail(aliases))

RECURSIVE SumOver(_, _)
SumOver(filesystem_list, f) ==
    IF filesystem_list = <<>> THEN 0
    ELSE FirstPresent(Head(filesystem_list), FieldAliases[f])
             + SumOver(Tail(filesystem_list), f)

AllNumeric(filesystem_list) ==
    \A i \in 1..Len(filesystem_list) : \A k \in FsKeys : filesystem_list[i][k].t # "str"

\* C14: extractor totals.  For a list of entries with numeric values each of
\* the four totals is the sum, over the devices, of the value under the first
\* alias present in the entry, a missing value counting as zero.
C14_ExtractorTotals ==
    (fpc = "extracted" /\ AllNumeric(FilesystemList(fn_in)))
        => \A f \in 1..4 : fn_out[f] = SumOver(FilesystemList(fn_in), f)

\* --------------------------------------------------------------------- C15
\* a value the extractor resolves for this entry fails to parse
FailsToParse(fs_entry) ==
    \E f \in 1..4 : IntRaises(OrZero(OrOverAliases(fs_entry, FieldAliases[f])))

RECURSIVE WithoutFailing(_)
WithoutFailing(filesystem_list) ==
    IF filesystem_list = <<>> THEN <<>>
    ELSE IF FailsToParse(Head(filesystem_list)) THEN WithoutFailing(Tail(filesystem_list))
    ELSE <<Head(filesystem_list)>> \o WithoutFailing(Tail(filesystem_list))

\* C15: a bad device is skipped whole.  The totals are those of the list
\* without the devices that have a value failing to parse: such a device adds
\* to none of the four totals, every other device is summed.
C15_BadDeviceSkippedWhole ==
    fpc = "extracted"
        => fn_out = AddEntries(<<0, 0, 0, 0>>, WithoutFailing(FilesystemList(fn_in)))


\* ------------------------------------- the metrics of one sample, alone
LeafValues == {Absent, Num(1), NotANumber}
CpuFields ==
    {[has |-> FALSE, usage_has |-> FALSE, total |-> Absent],
     [has |-> TRUE, usage_has |-> FALSE, total |-> Absent]}
        \cup {[has |-> TRUE, usage_has |-> TRUE, total |-> v] : v \in LeafValues}
MemoryFields ==
    {[has |-> FALSE, usage |-> Absent, limit |-> Absent]}
        \cup {[has |-> TRUE, usage |-> u, limit |-> l] : u \in LeafValues, l \in LeafValues}
NetworkKeys == <<"rx_bytes", "tx_bytes", "rx_packets", "tx_packets">>
NetworkFields ==
    {[has |-> FALSE, rx_bytes |-> Absent, tx_bytes |-> Absent, rx_packets |-> Absent,
      tx_packets |-> Absent]}
        \cup {[has |-> TRUE, rx_bytes |-> a, tx_bytes |-> b, rx_packets |-> c, tx_packets |-> d]
                  : a \in LeafValues, b \in LeafValues, c \in LeafValues, d \in LeafValues}
OneDevice == [k \in FsKeys |-> IF k = "reads" THEN Num(1) ELSE Absent]
FilesystemFields == {NoList, List(<<>>), List(<<OneDevice>>)}
StatSamples ==
    {[ts |-> [kind |-> "iso", tenths |-> t], cpu |-> c, memory |-> m, network |-> n,
      filesystem |-> f, fs |-> NoList]
         : t \in IsoTenths, c \in CpuFields, m \in MemoryFields, n \in NetworkFields,
           f \in FilesystemFields}

\* variant: d[key] without the default
DictGet_NoDefault(has, value, default) == value

\* d.get(key, default), d itself being s.get(field, {})
DictGet(has, value, default) == IF has /\ value # Absent THEN value ELSE default

\* lines 117-129: the eleven metrics before conversion, in the order of the row
Metrics(s) ==
    <<DictGet(s.cpu.has /\ s.cpu.usage_has, s.cpu.total, Num(0)),
      DictGet(s.memory.has, s.memory.usage, Num(0)),
      DictGet(s.memory.has, s.memory.limit, Num(0))>>
        \o [f \in 1..4 |-> Num(extract_filesystem_counters(s)[f])]
        \o [i \in 1..4 |-> DictGet(s.network.has, s.network[NetworkKeys[i]], Num(0))]

MetricsRaise(s) == \E i \in 1..11 : IntRaises(Metrics(s)[i])
Line(cid, s) ==
    [kind |-> "row", cid |-> cid, ts |-> SampleTs(s),
     metrics |-> [i \in 1..11 |-> Metrics(s)[i].n]]

RowInit ==
    /\ ThreadsIdle
    /\ cadvisor_address = <<"h">>
    /\ fpc = "row"
    /\ fn_in \in StatSamples
    /\ fn_out = <<>>

\* lines 111-136 for one sample of container c1 that is not seen yet
BuildRow ==
    /\ fpc = "row"
    /\ UniqueKey("c1", fn_in) \notin seen_samples
    /\ seen_samples' = seen_samples \cup {UniqueKey("c1", fn_in)}
    /\ fn_out' = <<MetricsRaise(fn_in)>>
    /\ write_queue' = IF MetricsRaise(fn_in) THEN write_queue
                      ELSE Append(write_queue, Line("c1", fn_in))
    /\ fpc' = "row_done"
    /\ UNCHANGED <<cadvisor_address, fn_in, interval_seconds, stop_event, file, mpc, cpc,
                   wpc, spc, stops, docker_data, tick, history, truncated>>

RowNext == BuildRow

RowSpec == RowInit /\ [][RowNext]_vars

\* --------------------------------------------------------------------- C16
\* where each metric of the row comes from: is it there in the sample?
MetricPresent(s) ==
    <<s.cpu.has /\ s.cpu.usage_has /\ s.cpu.total # Absent,
      s.memory.has /\ s.memory.usage # Absent,
      s.memory.has /\ s.memory.limit # Absent>>
        \o [f \in 1..4 |-> FilesystemList(s) # <<>>]
        \o [i \in 1..4 |-> s.network.has /\ s.network[NetworkKeys[i]] # Absent]
PresentValue(s) ==
    <<s.cpu.total, s.memory.usage, s.memory.limit, Num(0), Num(0), Num(0), Num(0)>>
        \o [i \in 1..4 |-> s.network[NetworkKeys[i]]]
SomePresentNotANumber(s) ==
    \E i \in 1..11 : MetricPresent(s)[i] /\ PresentValue(s)[i] = NotANumber

\* C16: zero on missing.  Absent fields never make the sample fail: it fails
\* only on a field that is there and is not a number; otherwise one row is
\* enqueued for it, and every metric whose field is absent is zero in it.
C16_ZeroOnMissing ==
    fpc = "row_done" =>
        /\ fn_out[1] <=> SomePresentNotANumber(fn_in)
        /\ ~fn_out[1] =>
               /\ Len(write_queue) = 1
               /\ write_queue[1].kind = "row"
               /\ write_queue[1].ts = SampleTs(fn_in)
               /\ \A i \in 1..11 : ~MetricPresent(fn_in)[i] => write_queue[1].metrics[i] = 0

C16_Witness ==
    /\ fpc = "row_done"
    /\ ~fn_in.cpu.has
    /\ ~fn_in.memory.has
    /\ ~fn_in.network.has
    /\ ~fn_in.filesystem.has
    /\ Len(write_queue) = 1
    /\ write_queue[1].metrics = [i \in 1..11 |-> 0]


\* --------------------------------------------------------------------- C17
\* C17: seen implies enqueued.  Whatever poll iterations have run, every key in
\* the seen set has exactly one row that was enqueued for it.
C17_SeenImpliesEnqueued ==
    \A k \in seen_samples : Cardinality(RowsOfKey(k, enqueued)) = 1


\* --------------------------------------------------------------------- C18
\* A step of the worker inside an iteration that is skipped because stop is
\* set, or that fails before it has a decoded snapshot.
FailedOrSkippedStep ==
    /\ cpc' # cpc
    /\ \/ cpc \in {"once_check", "resolve", "skip"}
       \/ cpc = "fetch" /\ cpc' = "except"
       \/ cpc = "except" /\ it_snapshot = <<>>

\* C18: an iteration that fails at the fetch or decode step, and one that is
\* skipped because stop is set, leave the seen set, the queue and the file
\* unchanged.
C18_FailedIterationFrame ==
    [][FailedOrSkippedStep => UNCHANGED <<seen_samples, write_queue, file>>]_vars

\* A fetch has just failed while the seen set, the queue and the file all hold
\* something of an earlier iteration.
C18_Witness ==
    /\ cpc = "except"
    /\ it_snapshot = <<>>
    /\ failed
    /\ seen_samples # {}
    /\ QueueRows # <<>>
    /\ FileRows # <<>>


\* --------------------------------------------------------------------- C19
InWait == cpc \in {"wait_check", "sleeping"}

\* C19: interruptible interval wait.  With stop set, the wait finishes at most
\* the increment in progress and begins no further one, the loop begins no
\* further poll iteration, and the collector loop then terminates, however
\* many increments of the interval are left.
C19_InterruptibleWait ==
    /\ [][stop_event =>
            /\ cpc = "sleeping" => cpc' \in {"sleeping", "wait_check"}
            /\ cpc = "wait_check" => cpc' \in {"wait_check", "loop"}
            /\ cpc = "loop" => cpc' \in {"loop", "done"}]_vars
    /\ (stop_event /\ InWait) ~> (cpc = "done")

\* The collector loop has ended after leaving a wait that stop interrupted
\* with increments of the interval still to go.
C19_Witness ==
    /\ stop_event
    /\ cpc = "done"
    /\ tick >= 1
    /\ tick < interval_seconds


\* --------------------------------------------------------------------- C20
\* C20: stop() is idempotent and its sentinel is invisible.  The stop flag is
\* never cleared; a step of stop(), the first call or a repeated one, changes
\* neither the file nor the rows in the queue; taking a sentinel off the queue
\* adds no line to the file, which never holds a sentinel; and once stop is
\* set the writer terminates, however many sentinels are in its queue.
C20_StopIdempotentSentinelInvisible ==
    /\ [][stop_event => stop_event']_vars
    /\ [][spc' # spc => (file' = file /\ QueueRows' = QueueRows)]_vars
    /\ [][(/\ write_queue # <<>>
           /\ Head(write_queue) = Sentinel
           /\ write_queue' = Tail(write_queue)) => file' = file]_vars
    /\ [](\A i \in 1..Len(file) : file[i] # Sentinel)
    /\ stop_event ~> (wpc = "done")

\* Two calls of stop() have completed, the writer has taken both sentinels and
\* has terminated, and the file holds rows.
C20_Witness ==
    /\ stops = 2
    /\ spc = "idle"
    /\ wpc = "done"
    /\ write_queue = <<>>
    /\ FileRows # <<>>

====
